---- MODULE Spec2Model ----
(***************************************************************************)
(* A kanban board: the board state store (useBoardStore.ts) and the        *)
(* drag-and-drop handlers of DndBoard.tsx that commit into it.             *)
(*                                                                         *)
(* Ids are numbers compared for equality only.  The seed ids of the source *)
(* (3453453434, 123134, 12423423434, 345345243534, 2, 3) are six distinct  *)
(* numbers, all smaller than any reading of Date.now(); the model keeps    *)
(* that shape with the numbers 1..6 and a clock that starts at 7.          *)
(***************************************************************************)
EXTENDS Integers, Sequences, FiniteSets, TLC

(***************************************************************************)
(* Bounds of the model.                                                    *)
(***************************************************************************)
\* Clock readings beyond the first one (Date.now() is read at most this far
\* past ClockStart).
MaxTicks == 1
\* Direct calls of the store's action API in one behaviour.
MaxCalls == 2
\* Longest cardIds argument of reorderCardsInColumn.
MaxCardIds == 2
\* Longest columnIds argument of reorderColumns.
MaxColumnIds == 3
\* newIndex arguments of moveCard range over -MaxNegIndex .. MaxIndex.
MaxIndex == 3
MaxNegIndex == 2

(***************************************************************************)
(* The seed data (initialColumns).                                         *)
(***************************************************************************)
TodoId == 1
InProgressId == 2
DoneId == 3
CreateInterviewId == 4
ReviewDndId == 5
SetUpProjectId == 6
\* The first Date.now() a session can read: later than every seed id.
ClockStart == 7

MaxClock == ClockStart + MaxTicks
\* An id that names nothing on any board of the model.
UnknownId == MaxClock + 1

\* A new card: no description yet (the field is optional), no comments.
Card(id, title) ==
  [id |-> id, title |-> title, description |-> <<>>, comments |-> <<>>]

\* The id literals of the seed data as the source writes them, by model id.
SeedLiteral ==
  << "3453453434", "2", "3", "123134", "12423423434", "345345243534" >>

\* A mutant of initialColumns: the second column is given the id of the first.
initialColumns_sharedId ==
  << [id |-> TodoId, title |-> "Todo",
      items |-> << Card(CreateInterviewId, "Create interview"),
                   Card(ReviewDndId, "Review Drag & Drop") >>],
     [id |-> TodoId, title |-> "In Progress",
      items |-> << Card(SetUpProjectId, "Set up Next.js project") >>],
     [id |-> DoneId, title |-> "Done", items |-> <<>>] >>

initialColumns ==
  << [id |-> TodoId, title |-> "Todo",
      items |-> << Card(CreateInterviewId, "Create interview"),
                   Card(ReviewDndId, "Review Drag & Drop") >>],
     [id |-> InProgressId, title |-> "In Progress",
      items |-> << Card(SetUpProjectId, "Set up Next.js project") >>],
     [id |-> DoneId, title |-> "Done", items |-> <<>>] >>

VARIABLES
  columns,       \* the store's columns: a sequence of [id, title, items]
  now,           \* the last reading of Date.now()
  activeCard,    \* DndBoard's overlay state: Null or <<[id, title, commentCount]>>
  dragPosition,  \* DndBoard's preview: Null or <<[activeId, fromColumnId, toColumnId, toIndex]>>
  dnd,           \* the library's active draggable: Null or <<[id, type]>>
  last,          \* the store action invoked last (since the gesture began), with the columns it ran on
  calls,         \* direct calls of the store API so far
  boardTitle,    \* the store's boardTitle
  invoked,       \* store actions invoked since the gesture began (each one a persistence write)
  drop,          \* the drag-end of the gesture: Null, or <<r>> with r.active, r.over,
                 \* r.position and r.pre (the columns) as the handler found them
                 \* and r.made, the store calls it made
  dndOver,       \* the library's current drop target, as the last drag-over
                 \* event reported it: Null or <<[id, type]>>
  hasHydrated,   \* the store's hasHydrated flag
  storage,       \* localStorage['trello-board-storage']: Null or
                 \* <<[state, version]>>, the snapshot as JSON
  hydration,     \* the page load: its phase ("created", "applied" or "failed",
                 \* "done"), the storage value it found and the board of the
                 \* page before
  page           \* the page: view, what Home rendered last, and input, the
                 \* last text one of its input components submitted

vars == <<columns, now, activeCard, dragPosition, dnd, last, calls, boardTitle,
          invoked, drop, dndOver, hasHydrated, storage, hydration, page>>
dragVars == <<activeCard, dragPosition, dnd, drop, dndOver>>
persistVars == <<hasHydrated, storage, hydration>>

Null == <<>>
Some(x) == <<x>>

(***************************************************************************)
(* Array helpers, as JavaScript computes them.                             *)
(***************************************************************************)
Indices(s) == 1..Len(s)

Min(a, b) == IF a < b THEN a ELSE b
Max(a, b) == IF a > b THEN a ELSE b

\* Array.prototype.findIndex on ids: 0-based, -1 when absent.
FindIndex(arr, id) ==
  IF \E i \in Indices(arr) : arr[i].id = id
    THEN (CHOOSE i \in Indices(arr) :
            /\ arr[i].id = id
            /\ \A j \in 1..(i - 1) : arr[j].id # id) - 1
    ELSE -1

\* Array.prototype.find on ids: Null (undefined) or <<the first match>>.
Find(arr, id) ==
  IF FindIndex(arr, id) = -1 THEN Null ELSE Some(arr[FindIndex(arr, id) + 1])

\* Array.prototype.some on ids.
SomeId(arr, id) == \E i \in Indices(arr) : arr[i].id = id

\* The start index Array.prototype.splice acts at: a negative start counts
\* from the end, and the result is clamped to [0, length].
SpliceStart(len, start) ==
  IF start < 0 THEN Max(len + start, 0) ELSE Min(start, len)

\* arr.splice(start, 0, item): insert item at the 0-based start index.
SpliceInsert(arr, start, item) ==
  LET k == SpliceStart(Len(arr), start)
  IN  SubSeq(arr, 1, k) \o <<item>> \o SubSeq(arr, k + 1, Len(arr))

\* arr.filter(x => x.id !== id)
FilterOutId(arr, id) ==
  LET keep(x) == x.id # id IN SelectSeq(arr, keep)

RECURSIVE MapFind(_, _)
\* ids.map(id => arr.find(x => x.id === id)).filter(x => x !== undefined)
MapFind(ids, arr) ==
  IF ids = <<>> THEN <<>>
  ELSE Find(arr, Head(ids)) \o MapFind(Tail(ids), arr)

\* The value JavaScript yields for a missing array element.
Undefined == "undefined"

\* arrayMove(array, from, to) of the drag-and-drop library:
\*   newArray.splice(to < 0 ? newArray.length + to : to, 0, newArray.splice(from, 1)[0])
\* The inner splice runs first, so the outer one sees the shortened array.
arrayMove(array, from, to) ==
  LET len     == Len(array)
      f       == SpliceStart(len, from)
      removed == IF f < len THEN array[f + 1] ELSE Undefined
      rest    == IF f < len
                   THEN SubSeq(array, 1, f) \o SubSeq(array, f + 2, len)
                   ELSE array
  IN  SpliceInsert(rest, IF to < 0 THEN len + to ELSE to, removed)

MapId(arr) == [i \in Indices(arr) |-> arr[i].id]

(***************************************************************************)
(* The store's actions, as functions from columns to columns.              *)
(***************************************************************************)
\* A mutant of addCard: the new card is put first instead of last.
addCard_unshift(cols, columnId, title, id) ==
  [i \in Indices(cols) |->
     IF cols[i].id = columnId
       THEN [cols[i] EXCEPT !.items = <<Card(id, title)>> \o @]
       ELSE cols[i]]

addCard(cols, columnId, title, id) ==
  [i \in Indices(cols) |->
     IF cols[i].id = columnId
       THEN [cols[i] EXCEPT !.items = Append(@, Card(id, title))]
       ELSE cols[i]]

\* The card looked up on the whole board instead of in fromColumnId.
CardToMove_anyColumn(cols, cardId, fromColumnId) ==
  LET holders == {i \in Indices(cols) : FindIndex(cols[i].items, cardId) # -1}
  IN  IF holders = {} THEN Null
      ELSE Find(cols[CHOOSE i \in holders : \A j \in holders : i <= j].items, cardId)

\* fromColumn?.items.find(item => item.id === cardId): Null or <<the card>>.
CardToMove(cols, cardId, fromColumnId) ==
  LET fromColumn == Find(cols, fromColumnId)
  IN  IF fromColumn = Null THEN Null
      ELSE Find(fromColumn[1].items, cardId)

\* The removal from the source column left out.
ColumnsWithoutCard_keepsCard(cols, cardId, fromColumnId) == cols

\* "Remove card from source column"
ColumnsWithoutCard(cols, cardId, fromColumnId) ==
  [i \in Indices(cols) |->
     IF cols[i].id = fromColumnId
       THEN [cols[i] EXCEPT !.items = FilterOutId(@, cardId)]
       ELSE cols[i]]

\* The card pushed at the end, whatever newIndex is.
InsertCard_push(cols, card, toColumnId, newIndex) ==
  [i \in Indices(cols) |->
     IF cols[i].id = toColumnId
       THEN [cols[i] EXCEPT !.items = Append(@, card)]
       ELSE cols[i]]

\* newIndex clamped to length - 1 instead of length.
InsertCard_beforeLast(cols, card, toColumnId, newIndex) ==
  [i \in Indices(cols) |->
     IF cols[i].id = toColumnId
       THEN [cols[i] EXCEPT
               !.items = SpliceInsert(@, Min(newIndex, Max(Len(@) - 1, 0)), card)]
       ELSE cols[i]]

\* "Add card to destination column at specified index": cols are the
\* columns without the card.
InsertCard(cols, card, toColumnId, newIndex) ==
  [i \in Indices(cols) |->
     IF cols[i].id = toColumnId
       THEN [cols[i] EXCEPT !.items = SpliceInsert(@, newIndex, card)]
       ELSE cols[i]]

moveCard(cols, cardId, fromColumnId, toColumnId, newIndex) ==
  LET cardToMove == CardToMove(cols, cardId, fromColumnId)
  IN  IF cardToMove = Null THEN cols
      ELSE InsertCard(ColumnsWithoutCard(cols, cardId, fromColumnId),
                      cardToMove[1], toColumnId, newIndex)

\* A lookup of the listed cards on the whole board instead of in the column.
reorderCardsInColumn_findAnywhere(cols, columnId, cardIds) ==
  LET RECURSIVE All(_)
      All(i) == IF i > Len(cols) THEN <<>> ELSE cols[i].items \o All(i + 1)
  IN  [i \in Indices(cols) |->
         IF cols[i].id = columnId
           THEN [cols[i] EXCEPT !.items = MapFind(cardIds, All(1))]
           ELSE cols[i]]

\* The reorder applied without the test on the column's id.
reorderCardsInColumn_everyColumn(cols, columnId, cardIds) ==
  [i \in Indices(cols) |-> [cols[i] EXCEPT !.items = MapFind(cardIds, @)]]

reorderCardsInColumn(cols, columnId, cardIds) ==
  [i \in Indices(cols) |->
     IF cols[i].id = columnId
       THEN [cols[i] EXCEPT !.items = MapFind(cardIds, @)]
       ELSE cols[i]]

addColumn(cols, title, id) ==
  Append(cols, [id |-> id, title |-> title, items |-> <<>>])

\* The filter's test inverted: === for !==.
deleteColumn_keepsNamed(cols, columnId) ==
  LET keep(c) == c.id = columnId IN SelectSeq(cols, keep)

deleteColumn(cols, columnId) == FilterOutId(cols, columnId)

\* The columns that are not listed kept after the listed ones, last first.
reorderColumns_keepsUnlisted(cols, columnIds) ==
  LET listed(c) == \E k \in Indices(columnIds) : columnIds[k] = c.id
      unlisted(c) == ~listed(c)
      rest == SelectSeq(cols, unlisted)
  IN  MapFind(columnIds, cols) \o [k \in Indices(rest) |-> rest[Len(rest) + 1 - k]]

reorderColumns(cols, columnIds) == MapFind(columnIds, cols)

updateColumnTitle(cols, columnId, newTitle) ==
  [i \in Indices(cols) |->
     IF cols[i].id = columnId THEN [cols[i] EXCEPT !.title = newTitle]
     ELSE cols[i]]

\* Number.prototype.toString(): the decimal digits of n >= 0, as characters.
DigitChars == <<"0", "1", "2", "3", "4", "5", "6", "7", "8", "9">>
RECURSIVE toString(_)
toString(n) ==
  IF n < 10 THEN <<DigitChars[n + 1]>>
  ELSE toString(n \div 10) \o <<DigitChars[(n % 10) + 1]>>

\* The comment addComment builds: idTime and createdAt are its two clock reads.
NewComment(commentText, idTime, createdAt) ==
  [id |-> toString(idTime), text |-> commentText, author |-> "User",
   createdAt |-> createdAt]

\* A mutant of addComment: the new comment is put first.
addComment_unshift(cols, cardId, commentText, idTime, createdAt) ==
  [i \in Indices(cols) |->
     [cols[i] EXCEPT !.items =
        [k \in Indices(cols[i].items) |->
           LET card == cols[i].items[k]
           IN  IF card.id = cardId
                 THEN [card EXCEPT !.comments =
                         <<NewComment(commentText, idTime, createdAt)>> \o @]
                 ELSE card]]]

addComment(cols, cardId, commentText, idTime, createdAt) ==
  [i \in Indices(cols) |->
     [cols[i] EXCEPT !.items =
        [k \in Indices(cols[i].items) |->
           LET card == cols[i].items[k]
           IN  IF card.id = cardId
                 THEN [card EXCEPT !.comments =
                         Append(@, NewComment(commentText, idTime, createdAt))]
                 ELSE card]]]

updateCardTitle(cols, cardId, newTitle) ==
  [i \in Indices(cols) |->
     [cols[i] EXCEPT !.items =
        [k \in Indices(cols[i].items) |->
           LET card == cols[i].items[k]
           IN  IF card.id = cardId THEN [card EXCEPT !.title = newTitle]
               ELSE card]]]

updateCardDescription(cols, cardId, description) ==
  [i \in Indices(cols) |->
     [cols[i] EXCEPT !.items =
        [k \in Indices(cols[i].items) |->
           LET card == cols[i].items[k]
           IN  IF card.id = cardId
                 THEN [card EXCEPT !.description = <<description>>]
                 ELSE card]]]

(***************************************************************************)
(* A call of a store action: its name and arguments.  `last` holds the     *)
(* call made last together with the columns it ran on (pre).               *)
(***************************************************************************)
NoCall ==
  [op |-> "none", cardId |-> 0, columnId |-> 0, toColumnId |-> 0,
   newIndex |-> 0, ids |-> <<>>, title |-> "", newId |-> 0, createdAt |-> 0,
   pre |-> <<>>]

AddCardCall(columnId, title, id) ==
  [NoCall EXCEPT !.op = "addCard", !.columnId = columnId, !.title = title,
                 !.newId = id]
MoveCardCall(cardId, fromColumnId, toColumnId, newIndex) ==
  [NoCall EXCEPT !.op = "moveCard", !.cardId = cardId,
                 !.columnId = fromColumnId, !.toColumnId = toColumnId,
                 !.newIndex = newIndex]
ReorderCardsCall(columnId, cardIds) ==
  [NoCall EXCEPT !.op = "reorderCardsInColumn", !.columnId = columnId,
                 !.ids = cardIds]
AddColumnCall(title, id) ==
  [NoCall EXCEPT !.op = "addColumn", !.title = title, !.newId = id]
DeleteColumnCall(columnId) ==
  [NoCall EXCEPT !.op = "deleteColumn", !.columnId = columnId]
ReorderColumnsCall(columnIds) ==
  [NoCall EXCEPT !.op = "reorderColumns", !.ids = columnIds]
UpdateColumnTitleCall(columnId, newTitle) ==
  [NoCall EXCEPT !.op = "updateColumnTitle", !.columnId = columnId,
                 !.title = newTitle]
AddCommentCall(cardId, commentText, idTime, createdAt) ==
  [NoCall EXCEPT !.op = "addComment", !.cardId = cardId, !.title = commentText,
                 !.newId = idTime, !.createdAt = createdAt]
UpdateCardTitleCall(cardId, newTitle) ==
  [NoCall EXCEPT !.op = "updateCardTitle", !.cardId = cardId, !.title = newTitle]
UpdateCardDescriptionCall(cardId, description) ==
  [NoCall EXCEPT !.op = "updateCardDescription", !.cardId = cardId,
                 !.title = description]
UpdateBoardTitleCall(newTitle) ==
  [NoCall EXCEPT !.op = "updateBoardTitle", !.title = newTitle]

\* The columns a call leaves, run on cols.
Apply(call, cols) ==
  CASE call.op = "addCard" ->
         addCard(cols, call.columnId, call.title, call.newId)
    [] call.op = "moveCard" ->
         moveCard(cols, call.cardId, call.columnId, call.toColumnId, call.newIndex)
    [] call.op = "reorderCardsInColumn" ->
         reorderCardsInColumn(cols, call.columnId, call.ids)
    [] call.op = "addColumn" -> addColumn(cols, call.title, call.newId)
    [] call.op = "deleteColumn" -> deleteColumn(cols, call.columnId)
    [] call.op = "reorderColumns" -> reorderColumns(cols, call.ids)
    [] call.op = "updateColumnTitle" ->
         updateColumnTitle(cols, call.columnId, call.title)
    [] call.op = "addComment" ->
         addComment(cols, call.cardId, call.title, call.newId, call.createdAt)
    [] call.op = "updateCardTitle" -> updateCardTitle(cols, call.cardId, call.title)
    [] call.op = "updateCardDescription" ->
         updateCardDescription(cols, call.cardId, call.title)
    [] OTHER -> cols

\* set(...): the store replaces its columns in one step.
Invoke(call) ==
  /\ columns' = Apply(call, columns)
  /\ last' = [call EXCEPT !.pre = columns]

(***************************************************************************)
(* Persistence: the persist options of the store.  The snapshot is JSON:   *)
(* a card's comments are a value that is an array or is not one, and a key *)
(* of the state (boardTitle, hasHydrated) is present, <<value>>, or absent.*)
(***************************************************************************)
\* version: 2
CurrentVersion == 2

JsonArray(elems) == [isArray |-> TRUE, elems |-> elems]
\* A comments value that is no array: the {} of the oldest snapshots.
NotAnArray == [isArray |-> FALSE, elems |-> <<>>]

\* JSON.stringify of the comments a card of the store holds.
CommentsToJson(comments) ==
  IF comments = <<NotAnArray>> THEN NotAnArray ELSE JsonArray(comments)

\* JSON.parse: what the store holds once the value is merged into it.  A
\* value that is no array stays what it is.
CommentsFromJson(json) ==
  IF json.isArray THEN json.elems ELSE <<NotAnArray>>

ColumnsToJson(cols) ==
  [i \in Indices(cols) |->
     [cols[i] EXCEPT !.items =
        [k \in Indices(cols[i].items) |->
           [cols[i].items[k] EXCEPT !.comments = CommentsToJson(@)]]]]

ColumnsFromJson(json) ==
  [i \in Indices(json) |->
     [json[i] EXCEPT !.items =
        [k \in Indices(json[i].items) |->
           [json[i].items[k] EXCEPT !.comments = CommentsFromJson(@)]]]]

\* A mutant of ToJson: only the columns are serialised.
ToJson_columnsOnly(title, cols, flag) ==
  [boardTitle |-> Null, hasHydrated |-> Null, columns |-> ColumnsToJson(cols)]

\* No partialize option: every field of the state that is not a function is
\* serialised, the hasHydrated flag included.
ToJson(title, cols, flag) ==
  [boardTitle |-> Some(title), hasHydrated |-> Some(flag),
   columns |-> ColumnsToJson(cols)]

\* setItem: what the storage holds after a set(...) of the store.
Written(title, cols, flag) ==
  Some([state |-> ToJson(title, cols, flag), version |-> CurrentVersion])

\* A mutant of NormaliseComments: every card's comments become [].
NormaliseComments_resetsAll(state) ==
  [state EXCEPT !.columns =
     [i \in Indices(state.columns) |->
        [state.columns[i] EXCEPT !.items =
           [k \in Indices(state.columns[i].items) |->
              [state.columns[i].items[k] EXCEPT !.comments = JsonArray(<<>>)]]]]]

\* 0 -> 1: comments that are no array become [].
NormaliseComments(state) ==
  [state EXCEPT !.columns =
     [i \in Indices(state.columns) |->
        [state.columns[i] EXCEPT !.items =
           [k \in Indices(state.columns[i].items) |->
              [state.columns[i].items[k] EXCEPT !.comments =
                 IF @.isArray THEN @ ELSE JsonArray(<<>>)]]]]]

\* 1 -> 2: state.boardTitle || 'Demo Board' (an absent title and '' are falsy).
PopulateBoardTitle(state) ==
  [state EXCEPT !.boardTitle =
     IF @ # Null /\ @[1] # "" THEN @ ELSE Some("Demo Board")]

\* A mutant of migrate: the title step also runs on a version-2 snapshot.
migrate_alwaysPopulatesTitle(persistedState, version) ==
  LET state == IF version = 0 THEN NormaliseComments(persistedState)
               ELSE persistedState
  IN  IF version <= 2 THEN PopulateBoardTitle(state) ELSE state

migrate(persistedState, version) ==
  LET state == IF version = 0 THEN NormaliseComments(persistedState)
               ELSE persistedState
  IN  IF version <= 1 THEN PopulateBoardTitle(state) ELSE state

\* The default merge of persist: { ...currentState, ...persistedState }.
merge(persistedState, currentState) ==
  [boardTitle  |-> IF persistedState.boardTitle = Null
                     THEN currentState.boardTitle
                     ELSE persistedState.boardTitle[1],
   hasHydrated |-> IF persistedState.hasHydrated = Null
                     THEN currentState.hasHydrated
                     ELSE persistedState.hasHydrated[1],
   columns     |-> ColumnsFromJson(persistedState.columns)]

\* hasHydrated: false in the initial state of the store.
InitialHasHydrated == FALSE

\* set({ hasHydrated: state })
setHasHydrated(state) == state

(***************************************************************************)
(* Arguments a caller can pass.                                            *)
(***************************************************************************)
Titles == {"A", "B"}

ColumnIdsOf(cols) == {cols[i].id : i \in Indices(cols)}
CardIdsOf(cols) ==
  UNION {{cols[i].items[k].id : k \in Indices(cols[i].items)} : i \in Indices(cols)}

ColumnArgs == ColumnIdsOf(columns) \cup {UnknownId}
CardArgs == CardIdsOf(columns) \cup {UnknownId}
IndexArgs == (0 - MaxNegIndex)..MaxIndex
SeqsUpTo(S, n) == UNION {[1..k -> S] : k \in 0..n}

(***************************************************************************)
(* Direct calls of the store's action API.                                 *)
(***************************************************************************)
\* A store action is called: set(...) and the write of the snapshot.
StoreCall(call) ==
  /\ calls < MaxCalls
  /\ calls' = calls + 1
  /\ invoked' = invoked + 1
  /\ Invoke(call)
  /\ storage' = Written(boardTitle, Apply(call, columns), hasHydrated)
  /\ UNCHANGED <<dragVars, boardTitle, hasHydrated, hydration>>

ApiCall(call) == StoreCall(call) /\ UNCHANGED page

AddCard ==
  \E columnId \in ColumnArgs, title \in Titles, t \in now..MaxClock :
    /\ now' = t
    /\ ApiCall(AddCardCall(columnId, title, t))

MoveCard ==
  \E cardId \in CardArgs, fromColumnId \in ColumnArgs,
     toColumnId \in ColumnArgs, newIndex \in IndexArgs :
    /\ ApiCall(MoveCardCall(cardId, fromColumnId, toColumnId, newIndex))
    /\ UNCHANGED now

ReorderCardsInColumn ==
  \E columnId \in ColumnArgs, cardIds \in SeqsUpTo(CardArgs, MaxCardIds) :
    /\ ApiCall(ReorderCardsCall(columnId, cardIds))
    /\ UNCHANGED now

AddColumn ==
  \E title \in Titles, t \in now..MaxClock :
    /\ now' = t
    /\ ApiCall(AddColumnCall(title, t))

DeleteColumn ==
  \E columnId \in ColumnArgs :
    /\ ApiCall(DeleteColumnCall(columnId))
    /\ UNCHANGED now

ReorderColumns ==
  \E columnIds \in SeqsUpTo(ColumnArgs, MaxColumnIds) :
    /\ ApiCall(ReorderColumnsCall(columnIds))
    /\ UNCHANGED now

UpdateColumnTitle ==
  \E columnId \in ColumnArgs, newTitle \in Titles :
    /\ ApiCall(UpdateColumnTitleCall(columnId, newTitle))
    /\ UNCHANGED now

\* addComment reads the clock twice: for the comment's id, then for createdAt.
AddComment ==
  \E cardId \in CardArgs, commentText \in Titles,
     idTime \in now..MaxClock :
    \E createdAt \in idTime..MaxClock :
      /\ now' = createdAt
      /\ ApiCall(AddCommentCall(cardId, commentText, idTime, createdAt))

UpdateCardTitle ==
  \E cardId \in CardArgs, newTitle \in Titles :
    /\ ApiCall(UpdateCardTitleCall(cardId, newTitle))
    /\ UNCHANGED now

UpdateCardDescription ==
  \E cardId \in CardArgs, description \in Titles :
    /\ ApiCall(UpdateCardDescriptionCall(cardId, description))
    /\ UNCHANGED now

\* set({ boardTitle: newTitle }): the columns are not touched.
StoreTitleCall(newTitle) ==
  /\ calls < MaxCalls
  /\ calls' = calls + 1
  /\ invoked' = invoked + 1
  /\ boardTitle' = newTitle
  /\ last' = [UpdateBoardTitleCall(newTitle) EXCEPT !.pre = columns]
  /\ storage' = Written(newTitle, columns, hasHydrated)
  /\ UNCHANGED <<columns, now, dragVars, hasHydrated, hydration>>

UpdateBoardTitle ==
  \E newTitle \in Titles : StoreTitleCall(newTitle) /\ UNCHANGED page

(***************************************************************************)
(* The drag handlers of DndBoard.                                          *)
(***************************************************************************)
\* Everything rendered with useSortable: each column and each card.
Sortables(cols) ==
  {[id |-> cols[i].id, type |-> "column"] : i \in Indices(cols)}
    \cup UNION {{[id |-> cols[i].items[k].id, type |-> "card"] :
                   k \in Indices(cols[i].items)} : i \in Indices(cols)}

\* columns.find(col => col.items.some(item => item.id === id)), as an index.
ColumnHolding(cols, id) ==
  IF \E i \in Indices(cols) : SomeId(cols[i].items, id)
    THEN CHOOSE i \in Indices(cols) :
           /\ SomeId(cols[i].items, id)
           /\ \A j \in 1..(i - 1) : ~SomeId(cols[j].items, id)
    ELSE 0

\* columns.find(col => hasCardWithId || isColumnId), as an index.
OverColumn(cols, overId) ==
  LET hit(i) == SomeId(cols[i].items, overId) \/ cols[i].id = overId
  IN  IF \E i \in Indices(cols) : hit(i)
        THEN CHOOSE i \in Indices(cols) : hit(i) /\ \A j \in 1..(i - 1) : ~hit(j)
        ELSE 0

\* The card's overlay data set by handleDragStart.
ActiveCardOf(cols, cardId) ==
  LET i    == ColumnHolding(cols, cardId)
      card == Find(cols[i].items, cardId)[1]
  IN  [id |-> card.id, title |-> card.title, commentCount |-> Len(card.comments)]

handleDragStart ==
  \E active \in Sortables(columns) :
    /\ dnd = Null
    /\ dnd' = Some(active)
    /\ activeCard' =
         IF active.type = "column" THEN Null
         ELSE IF ColumnHolding(columns, active.id) = 0 THEN activeCard
         ELSE Some(ActiveCardOf(columns, active.id))
    /\ last' = NoCall
    /\ invoked' = 0
    /\ drop' = Null
    /\ dndOver' = Null
    /\ UNCHANGED <<columns, now, dragPosition, calls, boardTitle, persistVars, page>>

\* A mutant of Preview: the target index is always the end of the column.
Preview_alwaysAppends(cols, activeId, overId) ==
  LET a == ColumnHolding(cols, activeId)
      o == OverColumn(cols, overId)
  IN  IF a = 0 \/ o = 0 THEN Null
      ELSE Some([activeId |-> activeId,
                 fromColumnId |-> cols[a].id,
                 toColumnId |-> cols[o].id,
                 toIndex |-> Len(cols[o].items)])

\* A mutant of Preview: the card is to go after the hovered card.
Preview_insertsAfter(cols, activeId, overId) ==
  LET a == ColumnHolding(cols, activeId)
      o == OverColumn(cols, overId)
  IN  IF a = 0 \/ o = 0 THEN Null
      ELSE
        LET overIndex == FindIndex(cols[o].items, overId)
        IN  Some([activeId |-> activeId,
                  fromColumnId |-> cols[a].id,
                  toColumnId |-> cols[o].id,
                  toIndex |-> IF overIndex # -1 THEN overIndex + 1
                              ELSE Len(cols[o].items)])

\* The preview handleDragOver computes for a card dragged over overId.
Preview(cols, activeId, overId) ==
  LET a == ColumnHolding(cols, activeId)
      o == OverColumn(cols, overId)
  IN  IF a = 0 \/ o = 0 THEN Null
      ELSE
        LET overIndex == FindIndex(cols[o].items, overId)
        IN  Some([activeId |-> activeId,
                  fromColumnId |-> cols[a].id,
                  toColumnId |-> cols[o].id,
                  toIndex |-> IF overIndex # -1 THEN overIndex
                              ELSE Len(cols[o].items)])

Overs == {Null} \cup {Some(s) : s \in Sortables(columns)}

\* A mutant of handleDragOver: a drag-over with no target keeps the preview.
handleDragOver_keepsPreview ==
  \E over \in Overs :
    /\ dnd # Null
    /\ dragPosition' =
         IF over = Null \/ dnd[1].type = "column" THEN dragPosition
         ELSE Preview(columns, dnd[1].id, over[1].id)
    /\ dndOver' = over
    /\ UNCHANGED <<columns, now, activeCard, dnd, last, calls, boardTitle,
                   invoked, drop, persistVars, page>>

\* A mutant of handleDragOver: the card is moved in the store while it hovers.
handleDragOver_movesCard ==
  \E over \in Overs :
    /\ dnd # Null
    /\ LET position == IF over = Null THEN Null
                        ELSE IF dnd[1].type = "column" THEN dragPosition
                        ELSE Preview(columns, dnd[1].id, over[1].id)
       IN  /\ dragPosition' = position
           /\ IF position # Null /\ dnd[1].type = "card"
                THEN /\ Invoke(MoveCardCall(position[1].activeId,
                                            position[1].fromColumnId,
                                            position[1].toColumnId,
                                            position[1].toIndex))
                     /\ invoked' = invoked + 1
                     /\ storage' = Written(boardTitle, columns', hasHydrated)
                ELSE UNCHANGED <<columns, last, invoked, storage>>
    /\ dndOver' = over
    /\ UNCHANGED <<now, activeCard, dnd, calls, boardTitle, drop, hasHydrated,
                   hydration, page>>

handleDragOver ==
  \E over \in Overs :
    /\ dnd # Null
    /\ dragPosition' =
         IF over = Null THEN Null
         ELSE IF dnd[1].type = "column" THEN dragPosition
         ELSE Preview(columns, dnd[1].id, over[1].id)
    /\ dndOver' = over
    /\ UNCHANGED <<columns, now, activeCard, dnd, last, calls, boardTitle,
                   invoked, drop, persistVars, page>>

\* A mutant of ColumnDropCalls: the two columns change places.
ColumnDropCalls_swap(cols, active, over) ==
  LET activeIndex == FindIndex(cols, active.id)
      overIndex   == FindIndex(cols, over.id)
      ids         == MapId(cols)
  IN  IF activeIndex # overIndex
        THEN <<ReorderColumnsCall([ids EXCEPT ![activeIndex + 1] = ids[overIndex + 1],
                                              ![overIndex + 1] = ids[activeIndex + 1]])>>
        ELSE <<>>

\* The store calls of a column dropped over a column, in the order made.
ColumnDropCalls(cols, active, over) ==
  LET activeIndex == FindIndex(cols, active.id)
      overIndex   == FindIndex(cols, over.id)
  IN  IF activeIndex # overIndex
        THEN <<ReorderColumnsCall(arrayMove(MapId(cols), activeIndex, overIndex))>>
        ELSE <<>>

\* A mutant of SameColumnCalls: oldIndex !== toIndex is not tested.
SameColumnCalls_alwaysReorders(cols, p) ==
  LET column == Find(cols, p.fromColumnId)
  IN  IF column = Null THEN <<>>
      ELSE
        LET oldIndex == FindIndex(column[1].items, p.activeId)
        IN  IF oldIndex # -1
              THEN <<ReorderCardsCall(p.fromColumnId,
                       MapId(arrayMove(column[1].items, oldIndex, p.toIndex)))>>
              ELSE <<>>

\* The same-column commit of a preview: one reorderCardsInColumn, or nothing.
SameColumnCalls(cols, p) ==
  LET column == Find(cols, p.fromColumnId)
  IN  IF column = Null THEN <<>>
      ELSE
        LET oldIndex == FindIndex(column[1].items, p.activeId)
        IN  IF oldIndex # -1 /\ oldIndex # p.toIndex
              THEN <<ReorderCardsCall(p.fromColumnId,
                       MapId(arrayMove(column[1].items, oldIndex, p.toIndex)))>>
              ELSE <<>>

\* A mutant of CardDropCalls: the same-column branch falls through to moveCard.
CardDropCalls_fallsThrough(cols, p) ==
  SameColumnCalls(cols, p)
    \o <<MoveCardCall(p.activeId, p.fromColumnId, p.toColumnId, p.toIndex)>>

\* A mutant of CardDropCalls: the cross-column commit ignores the preview's index.
CardDropCalls_appends(cols, p) ==
  IF p.fromColumnId = p.toColumnId
    THEN SameColumnCalls(cols, p)
    ELSE LET target == Find(cols, p.toColumnId)
         IN  <<MoveCardCall(p.activeId, p.fromColumnId, p.toColumnId,
                            IF target = Null THEN 0 ELSE Len(target[1].items))>>

\* The store calls that commit the preview p, in the order made.
CardDropCalls(cols, p) ==
  IF p.fromColumnId = p.toColumnId
    THEN SameColumnCalls(cols, p)
    ELSE <<MoveCardCall(p.activeId, p.fromColumnId, p.toColumnId, p.toIndex)>>

\* A mutant of DragEndCalls: the test for a missing drop target is left out.
DragEndCalls_commitsWithoutTarget(cols, active, over, position) ==
  IF over # Null /\ active.type = "column" /\ over[1].type = "column"
    THEN ColumnDropCalls(cols, active, over[1])
  ELSE IF position = Null THEN <<>>
  ELSE CardDropCalls(cols, position[1])

\* The store calls handleDragEnd makes, in the order made.
DragEndCalls(cols, active, over, position) ==
  IF over = Null THEN <<>>
  ELSE IF active.type = "column" /\ over[1].type = "column"
    THEN ColumnDropCalls(cols, active, over[1])
  ELSE IF position = Null THEN <<>>
  ELSE CardDropCalls(cols, position[1])

\* The columns a sequence of calls leaves, run on cols in order.
RECURSIVE ApplyAll(_, _)
ApplyAll(callSeq, cols) ==
  IF callSeq = <<>> THEN cols
  ELSE ApplyAll(Tail(callSeq), Apply(Head(callSeq), cols))

\* A mutant of TransientAfterDragEnd: the column branch keeps the preview.
TransientAfterDragEnd_columnKeepsPreview(active, over, position) ==
  IF over # Null /\ active.type = "column" /\ over[1].type = "column"
    THEN [activeCard |-> Null, dragPosition |-> position]
    ELSE [activeCard |-> Null, dragPosition |-> Null]

\* What handleDragEnd leaves in activeCard and dragPosition: each of its three
\* exits calls setActiveCard(null) and setDragPosition(null).
TransientAfterDragEnd(active, over, position) ==
  [activeCard |-> Null, dragPosition |-> Null]

handleDragEnd ==
  /\ dnd # Null
  /\ LET callSeq == DragEndCalls(columns, dnd[1], dndOver, dragPosition)
         n       == Len(callSeq)
         after   == TransientAfterDragEnd(dnd[1], dndOver, dragPosition)
     IN  /\ columns' = ApplyAll(callSeq, columns)
         /\ last' = IF n = 0 THEN last
                    ELSE [callSeq[n] EXCEPT
                            !.pre = ApplyAll(SubSeq(callSeq, 1, n - 1), columns)]
         /\ invoked' = invoked + n
         /\ storage' = IF n = 0 THEN storage
                       ELSE Written(boardTitle, ApplyAll(callSeq, columns),
                                    hasHydrated)
         /\ activeCard' = after.activeCard
         /\ dragPosition' = after.dragPosition
         /\ drop' = Some([active |-> dnd[1], over |-> dndOver,
                          position |-> dragPosition, pre |-> columns,
                          made |-> callSeq])
  /\ dnd' = Null
  /\ dndOver' = Null
  /\ UNCHANGED <<now, calls, boardTitle, hasHydrated, hydration, page>>

\* The gesture is aborted: DndContext is given no onDragCancel handler.
DragCancel ==
  /\ dnd # Null
  /\ dnd' = Null
  /\ dndOver' = Null
  /\ UNCHANGED <<columns, now, activeCard, dragPosition, last, calls,
                 boardTitle, invoked, drop, persistVars, page>>

(***************************************************************************)
(* A page load: the store is created with its defaults, persist reads the  *)
(* storage and merges the snapshot, then the callback returned by          *)
(* onRehydrateStorage runs.                                                *)
(***************************************************************************)
\* The storage value a load found, migrated when its version is not the
\* current one; Null when the storage was empty.
Deserialized(found) ==
  IF found = Null THEN Null
  ELSE IF found[1].version = CurrentVersion THEN Some(found[1].state)
  ELSE Some(migrate(found[1].state, found[1].version))

\* The state the store is set to: the defaults when nothing was stored.
Rehydrated(found, currentState) ==
  IF found = Null THEN currentState
  ELSE merge(Deserialized(found)[1], currentState)

\* migrate throws: state.columns.map on a version-0 state without columns.
MigrateThrows(found) ==
  /\ found # Null
  /\ found[1].version = 0
  /\ "columns" \notin DOMAIN found[1].state

\* hydrate(): the snapshot is read, migrated, merged and set; a migrated
\* snapshot is written back at once.  When migrate throws nothing is set.
Rehydrate ==
  /\ hydration.phase = "created"
  /\ IF MigrateThrows(storage)
       THEN /\ hydration' = [hydration EXCEPT !.phase = "failed",
                                              !.found = storage]
            /\ UNCHANGED <<boardTitle, columns, hasHydrated, storage>>
       ELSE
         LET currentState == [boardTitle |-> boardTitle,
                              hasHydrated |-> hasHydrated, columns |-> columns]
             merged == Rehydrated(storage, currentState)
         IN  /\ boardTitle' = merged.boardTitle
             /\ columns' = merged.columns
             /\ hasHydrated' = merged.hasHydrated
             /\ storage' =
                  IF storage # Null /\ storage[1].version # CurrentVersion
                    THEN Written(merged.boardTitle, merged.columns,
                                 merged.hasHydrated)
                    ELSE storage
             /\ hydration' = [hydration EXCEPT !.phase = "applied",
                                               !.found = storage]
  /\ UNCHANGED <<now, calls, last, invoked, dragVars, page>>

\* A mutant of onRehydrateStorage: the callback clears the flag.
onRehydrateStorage_clearsFlag ==
  /\ hydration.phase \in {"applied", "failed"}
  /\ IF hydration.phase = "applied"
       THEN /\ hasHydrated' = setHasHydrated(FALSE)
            /\ storage' = Written(boardTitle, columns, hasHydrated')
       ELSE UNCHANGED <<hasHydrated, storage>>
  /\ hydration' = [hydration EXCEPT !.phase = "done"]
  /\ UNCHANGED <<columns, boardTitle, now, calls, last, invoked, dragVars, page>>

\* The callback of onRehydrateStorage: state?.setHasHydrated(true), a set(...)
\* of the store like any other, so the snapshot is written.  After a failed
\* hydration the callback is handed no state and does nothing.
onRehydrateStorage ==
  /\ hydration.phase \in {"applied", "failed"}
  /\ IF hydration.phase = "applied"
       THEN /\ hasHydrated' = setHasHydrated(TRUE)
            /\ storage' = Written(boardTitle, columns, hasHydrated')
       ELSE UNCHANGED <<hasHydrated, storage>>
  /\ hydration' = [hydration EXCEPT !.phase = "done"]
  /\ UNCHANGED <<columns, boardTitle, now, calls, last, invoked, dragVars, page>>

(***************************************************************************)
(* Home: what the page shows.                                              *)
(***************************************************************************)
\* What Home renders: EditableTitle when hasHydrated, and DndBoard with the
\* columns, whatever the flag is, once its chunk is loaded ("Loading
\* board..." until then and on the server: ssr is false).
HomeView(hydrated, title, cols, dndBoardLoaded) ==
  [hydrated |-> hydrated,
   title |-> IF hydrated THEN Some(title) ELSE Null,
   board |-> IF dndBoardLoaded THEN Some(cols) ELSE Null]

\* The page as the server renders it: over a store that never hydrates.
ServerPage ==
  [view |-> HomeView(InitialHasHydrated, "Demo Board", initialColumns, FALSE),
   input |-> Null]

\* Home renders in the browser: the store it reads was created, and
\* hydrated, when its module was loaded.
RenderHome ==
  /\ hydration.phase = "done"
  /\ \E dndBoardLoaded \in BOOLEAN :
       page' = [page EXCEPT !.view = HomeView(hasHydrated, boardTitle, columns,
                                              dndBoardLoaded)]
  /\ UNCHANGED <<columns, now, calls, boardTitle, last, invoked, dragVars,
                 persistVars>>

\* The page is loaded again: a new store with the defaults, the storage as
\* the page before left it.
Reload ==
  /\ hydration.phase = "done"
  /\ dnd = Null
  /\ columns' = initialColumns
  /\ boardTitle' = "Demo Board"
  /\ hasHydrated' = InitialHasHydrated
  /\ hydration' = [phase |-> "created", found |-> Null,
                   before |-> Some([boardTitle |-> boardTitle,
                                    columns |-> columns])]
  /\ activeCard' = Null
  /\ dragPosition' = Null
  /\ drop' = Null
  /\ last' = NoCall
  /\ invoked' = 0
  /\ page' = ServerPage
  /\ UNCHANGED <<now, calls, dnd, dndOver, storage>>

(***************************************************************************)
(* Snapshots an earlier page, of this version of the store or of an older  *)
(* one, can have left in the storage.                                      *)
(***************************************************************************)
\* A comment written by an earlier page.
StoredComment == NewComment("A", ClockStart, ClockStart)

StoredBoards ==
  { initialColumns,
    updateCardDescription(
      reorderColumns(moveCard(initialColumns, ReviewDndId, TodoId, DoneId, 0),
                     <<DoneId, TodoId, InProgressId>>),
      ReviewDndId, "A") }

\* The board as JSON, with the comments value of the card "Create interview".
StoredColumns(board, comments) ==
  [i \in Indices(board) |->
     [ColumnsToJson(board)[i] EXCEPT !.items =
        [k \in Indices(board[i].items) |->
           IF board[i].items[k].id = CreateInterviewId
             THEN [@[k] EXCEPT !.comments = comments]
             ELSE @[k]]]]

\* Version 0 knows neither boardTitle nor array comments; version 1 writes
\* array comments; version 2 writes every field of the state.
StoredSnapshots ==
  {Null}
  \cup { Some([state |-> [boardTitle |-> title, hasHydrated |-> Null,
                          columns |-> StoredColumns(board, comments)],
               version |-> 0]) :
           title \in {Null, Some(""), Some("A")}, board \in StoredBoards,
           comments \in {NotAnArray, JsonArray(<<>>),
                         JsonArray(<<StoredComment>>)} }
  \cup { Some([state |-> [boardTitle |-> title, hasHydrated |-> Null,
                          columns |-> StoredColumns(board, comments)],
               version |-> 1]) :
           title \in {Null, Some(""), Some("A")}, board \in StoredBoards,
           comments \in {JsonArray(<<>>), JsonArray(<<StoredComment>>)} }
  \cup { Some([state |-> [boardTitle |-> Some(title), hasHydrated |-> Some(TRUE),
                          columns |-> StoredColumns(board, comments)],
               version |-> CurrentVersion]) :
           title \in {"", "A"}, board \in StoredBoards,
           comments \in {JsonArray(<<>>), JsonArray(<<StoredComment>>)} }

(***************************************************************************)
(* The input components.  A text is the sequence of its characters.        *)
(***************************************************************************)
\* Longest text typed into an input.
MaxTextLen == 2

Space == " "
Characters == {Space, "a"}
TypedTexts == SeqsUpTo(Characters, MaxTextLen)

\* The characters of the titles of the seed data.
Chars(title) ==
  CASE
       title = "Demo Board" ->
         <<"D", "e", "m", "o", " ", "B", "o", "a", "r", "d">>
    [] title = "Todo" ->
         <<"T", "o", "d", "o">>
    [] title = "In Progress" ->
         <<"I", "n", " ", "P", "r", "o", "g", "r", "e", "s", "s">>
    [] title = "Done" ->
         <<"D", "o", "n", "e">>
    [] title = "Create interview" ->
         <<"C", "r", "e", "a", "t", "e", " ", "i", "n", "t", "e", "r",
           "v", "i", "e", "w">>
    [] title = "Review Drag & Drop" ->
         <<"R", "e", "v", "i", "e", "w", " ", "D", "r", "a", "g", " ",
           "&", " ", "D", "r", "o", "p">>
    [] title = "Set up Next.js project" ->
         <<"S", "e", "t", " ", "u", "p", " ", "N", "e", "x", "t", ".",
           "j", "s", " ", "p", "r", "o", "j", "e", "c", "t">>

RECURSIVE trimStart(_)
trimStart(text) ==
  IF text # <<>> /\ Head(text) = Space THEN trimStart(Tail(text)) ELSE text

RECURSIVE trimEnd(_)
trimEnd(text) ==
  IF text # <<>> /\ text[Len(text)] = Space
    THEN trimEnd(SubSeq(text, 1, Len(text) - 1))
    ELSE text

\* String.prototype.trim
trim(text) == trimEnd(trimStart(text))

\* A mutant of ModalConfirms: the value is tested and passed on untrimmed.
ModalConfirms_untrimmed(value) ==
  IF value = <<>> THEN Null ELSE Some(value)

\* Modal.handleSubmit: Null (the error is shown), or <<the text onConfirm is
\* called with>>.
ModalConfirms(value) ==
  LET trimmedValue == trim(value)
  IN  IF trimmedValue = <<>> THEN Null ELSE Some(trimmedValue)

\* CardModal.handleTitleSave: Null, or <<the text onEditTitle is called with>>.
TitleSaves(titleValue, cardTitle) ==
  LET trimmed == trim(titleValue)
  IN  IF trimmed # <<>> /\ trimmed # cardTitle THEN Some(trimmed) ELSE Null

\* CardModal.handleSubmit: Null, or <<the text onAddComment is called with>>.
CommentSubmits(commentText) ==
  IF Len(trim(commentText)) > 0 THEN Some(trim(commentText)) ELSE Null

\* useEditableInput.save: Null, or <<the text onSave is called with>>.
save(value, initialValue) ==
  LET trimmedValue == trim(value)
  IN  IF trimmedValue = <<>> THEN Null
      ELSE IF trimmedValue # initialValue THEN Some(trimmedValue)
      ELSE Null

\* What the page records of a submit: the handler, the text in the input and
\* whether a store action was called.
Submitted(handler, value, text) ==
  [page EXCEPT !.input = Some([handler |-> handler, value |-> value,
                               called |-> text # Null])]

\* The handler calls no store action.
NoStoreCall ==
  UNCHANGED <<columns, now, calls, boardTitle, last, invoked, dragVars,
              persistVars>>

\* The Modal of Home is submitted: opened for a new card of a column or for a
\* new column (useModalState), it confirms into addCard or addColumn.
ModalSubmit ==
  \E value \in TypedTexts :
    LET input == ModalConfirms(value)
    IN  /\ page' = Submitted("Modal.handleSubmit", value, input)
        /\ IF input = Null THEN NoStoreCall
           ELSE \E type \in {"addCard", "addColumn"},
                   columnId \in ColumnIdsOf(columns), t \in now..MaxClock :
                  /\ StoreCall(IF type = "addCard"
                                 THEN AddCardCall(columnId, input[1], t)
                                 ELSE AddColumnCall(input[1], t))
                  /\ now' = t

\* DndBoard's selectedCard for a selectedCardId: the first card with the id,
\* columns in order; none for the id 0.
selectedCardOf(selectedCardId) ==
  LET holding == {i \in Indices(columns) :
                    SomeId(columns[i].items, selectedCardId)}
      first == CHOOSE i \in holding : \A j \in holding : i <= j
  IN  IF selectedCardId = 0 \/ holding = {} THEN Null
      ELSE Find(columns[first].items, selectedCardId)

\* The card modal is open on a card of the board.
SelectedCards ==
  {selectedCardOf(id)[1] :
     id \in {c \in CardIdsOf(columns) : selectedCardOf(c) # Null}}

\* The title input of the card modal is left or Enter is pressed in it.
CardTitleSave ==
  \E selectedCard \in SelectedCards :
    \E titleValue \in TypedTexts \cup {selectedCard.title} :
      LET input == TitleSaves(titleValue, selectedCard.title)
      IN  /\ page' = Submitted("CardModal.handleTitleSave", titleValue, input)
          /\ IF input = Null THEN NoStoreCall
             ELSE /\ StoreCall(UpdateCardTitleCall(selectedCard.id, input[1]))
                  /\ UNCHANGED now

\* The comment form of the card modal is submitted.
CommentSubmit ==
  \E commentText \in TypedTexts :
    LET input == CommentSubmits(commentText)
    IN  /\ page' = Submitted("CardModal.handleSubmit", commentText, input)
        /\ IF input = Null THEN NoStoreCall
           ELSE \E selectedCard \in SelectedCards, idTime \in now..MaxClock :
                  \E createdAt \in idTime..MaxClock :
                    /\ StoreCall(AddCommentCall(selectedCard.id, input[1],
                                                idTime, createdAt))
                    /\ now' = createdAt

\* The board title's input (EditableTitle, rendered when hasHydrated) is left
\* or Enter is pressed in it.
BoardTitleSave ==
  /\ hasHydrated
  /\ \E value \in TypedTexts \cup {boardTitle} :
       LET input == save(value, boardTitle)
       IN  /\ page' = Submitted("useEditableInput.save", value, input)
           /\ IF input = Null THEN NoStoreCall
              ELSE StoreTitleCall(input[1])

(***************************************************************************)
(* Specifications.                                                         *)
(***************************************************************************)
Init ==
  /\ columns = initialColumns
  /\ now = ClockStart
  /\ activeCard = Null
  /\ dragPosition = Null
  /\ dnd = Null
  /\ last = NoCall
  /\ calls = 0
  /\ boardTitle = "Demo Board"
  /\ invoked = 0
  /\ drop = Null
  /\ dndOver = Null
  /\ hasHydrated = TRUE
  /\ storage = Written("Demo Board", initialColumns, TRUE)
  /\ hydration = [phase |-> "done", found |-> Null, before |-> Null]
  /\ page = ServerPage

\* Any sequence of store API calls.
Next ==
  \/ AddCard
  \/ MoveCard
  \/ ReorderCardsInColumn
  \/ AddColumn
  \/ DeleteColumn
  \/ ReorderColumns

Spec == Init /\ [][Next]_vars

\* Sequences of addCard, moveCard and reorderCardsInColumn calls only.
NextCards ==
  \/ AddCard
  \/ MoveCard
  \/ ReorderCardsInColumn

SpecCards == Init /\ [][NextCards]_vars

\* Sequences of the two creating actions, addCard and addColumn.
NextCreate ==
  \/ AddCard
  \/ AddColumn

SpecCreate == Init /\ [][NextCreate]_vars

\* Any sequence of calls of the store's actions on the board.
NextStore ==
  \/ UpdateBoardTitle
  \/ AddCard
  \/ MoveCard
  \/ ReorderCardsInColumn
  \/ AddColumn
  \/ DeleteColumn
  \/ UpdateColumnTitle
  \/ ReorderColumns
  \/ AddComment
  \/ UpdateCardTitle
  \/ UpdateCardDescription

SpecStore == Init /\ [][NextStore]_vars

\* Drag gestures only: no store action but the ones a drop commits.
NextDrag ==
  \/ handleDragStart
  \/ handleDragOver
  \/ handleDragEnd
  \/ DragCancel

SpecDrag == Init /\ [][NextDrag]_vars

\* Gestures up to the first drop, with one call of a store action made at any
\* moment before it: between gestures or while one is in progress.
StartBeforeDrop == drop = Null /\ handleDragStart

StoreCallBeforeDrop == drop = Null /\ calls = 0 /\ NextStore

NextStale ==
  \/ StartBeforeDrop
  \/ handleDragOver
  \/ handleDragEnd
  \/ DragCancel
  \/ StoreCallBeforeDrop

SpecStale == Init /\ [][NextStale]_vars

\* Page loads: the store is created over any stored snapshot, hydrates, is
\* used through some of its actions and the page is loaded again.
InitLoad ==
  /\ columns = initialColumns
  /\ now = ClockStart
  /\ activeCard = Null
  /\ dragPosition = Null
  /\ dnd = Null
  /\ last = NoCall
  /\ calls = 0
  /\ boardTitle = "Demo Board"
  /\ invoked = 0
  /\ drop = Null
  /\ dndOver = Null
  /\ hasHydrated = InitialHasHydrated
  /\ storage \in StoredSnapshots
  /\ hydration = [phase |-> "created", found |-> Null, before |-> Null]
  /\ page = ServerPage

StoreCallAfterLoad ==
  /\ hydration.phase = "done"
  /\ \/ UpdateBoardTitle
     \/ AddComment
     \/ UpdateCardDescription

NextLoad ==
  \/ Rehydrate
  \/ onRehydrateStorage
  \/ StoreCallAfterLoad
  \/ Reload

SpecLoad == InitLoad /\ [][NextLoad]_vars

\* The snapshot of the store as it was when it held boardTitle and
\* hasHydrated only: no columns, and no version option (version 0).
TitleOnlySnapshot ==
  Some([state |-> [boardTitle |-> Some("A"), hasHydrated |-> Some(TRUE)],
        version |-> 0])

\* Page loads over any stored snapshot, that one included, and the renders
\* of Home.
InitPage ==
  /\ columns = initialColumns
  /\ now = ClockStart
  /\ activeCard = Null
  /\ dragPosition = Null
  /\ dnd = Null
  /\ last = NoCall
  /\ calls = 0
  /\ boardTitle = "Demo Board"
  /\ invoked = 0
  /\ drop = Null
  /\ dndOver = Null
  /\ hasHydrated = InitialHasHydrated
  /\ storage \in StoredSnapshots \cup {TitleOnlySnapshot}
  /\ hydration = [phase |-> "created", found |-> Null, before |-> Null]
  /\ page = ServerPage

NextPage ==
  \/ Rehydrate
  \/ onRehydrateStorage
  \/ RenderHome
  \/ Reload

SpecPage == InitPage /\ [][NextPage]_vars

\* The seed board with its titles as texts.
TextColumns ==
  [i \in 1..Len(initialColumns) |->
     [initialColumns[i] EXCEPT
        !.title = Chars(@),
        !.items = [k \in 1..Len(initialColumns[i].items) |->
                     [initialColumns[i].items[k] EXCEPT !.title = Chars(@)]]]]

\* Texts are submitted through the input components of the page.
InitInput ==
  /\ columns = TextColumns
  /\ now = ClockStart
  /\ activeCard = Null
  /\ dragPosition = Null
  /\ dnd = Null
  /\ last = NoCall
  /\ calls = 0
  /\ boardTitle = Chars("Demo Board")
  /\ invoked = 0
  /\ drop = Null
  /\ dndOver = Null
  /\ hasHydrated = TRUE
  /\ storage = Written(Chars("Demo Board"), TextColumns, TRUE)
  /\ hydration = [phase |-> "done", found |-> Null, before |-> Null]
  /\ page = ServerPage

NextInput ==
  \/ ModalSubmit
  \/ CardTitleSave
  \/ CommentSubmit
  \/ BoardTitleSave

SpecInput == InitInput /\ [][NextInput]_vars

(***************************************************************************)
(* Vocabulary of the claims.                                               *)
(***************************************************************************)
\* How many items of the board carry the card id.
Occurrences(cols, cardId) ==
  Cardinality(UNION {{<<i, k>> : k \in {n \in Indices(cols[i].items) :
                                          cols[i].items[n].id = cardId}} :
                     i \in Indices(cols)})

\* How many columns of the board carry the column id.
ColumnOccurrences(cols, columnId) ==
  Cardinality({i \in Indices(cols) : cols[i].id = columnId})

Range(s) == {s[k] : k \in Indices(s)}

\* The items of the (first) column with the id.
ItemsOf(cols, columnId) == Find(cols, columnId)[1].items

HasColumn(cols, columnId) == columnId \in ColumnIdsOf(cols)

\* The card is in the column the id names.
CardIn(cols, cardId, columnId) ==
  HasColumn(cols, columnId) /\ SomeId(ItemsOf(cols, columnId), cardId)

\* C1: starting from a board with every card in exactly one column, after
\* any sequence of addCard, moveCard and reorderCardsInColumn calls every
\* card of the start is still in exactly one column.
C1_CardsKeptByCardActions ==
  \A id \in CardIdsOf(initialColumns) : Occurrences(columns, id) = 1

\* C2: under drag gestures alone every store state has each card in exactly
\* one column's item list and each column exactly once on the board.
C2_DragKeepsEveryCard ==
  /\ CardIdsOf(columns) = CardIdsOf(initialColumns)
  /\ \A id \in CardIdsOf(initialColumns) : Occurrences(columns, id) = 1
  /\ ColumnIdsOf(columns) = ColumnIdsOf(initialColumns)
  /\ \A id \in ColumnIdsOf(initialColumns) : ColumnOccurrences(columns, id) = 1

\* A drop has committed a cross-column move and a later gesture is under way
\* on the board it left.
C2_Witness ==
  /\ dnd = Null
  /\ last.op = "moveCard"
  /\ columns # last.pre
  /\ \E i \in Indices(columns) : Len(columns[i].items) = 3

(***************************************************************************)
(* The last store call, for the claims about one action.                   *)
(***************************************************************************)
IsMove == last.op = "moveCard"
\* The call found its card: cardId is in the column fromColumnId names.
MoveFound == IsMove /\ CardIn(last.pre, last.cardId, last.columnId)
\* ... and moves it into another column of the board.
MoveAcross ==
  /\ MoveFound
  /\ last.columnId # last.toColumnId
  /\ HasColumn(last.pre, last.toColumnId)

\* new is old with a card of id cardId inserted at the 0-based position at.
InsertedAt(old, new, cardId, at) ==
  /\ Len(new) = Len(old) + 1
  /\ at \in 0..Len(old)
  /\ new[at + 1].id = cardId
  /\ \A k \in 1..at : new[k] = old[k]
  /\ \A k \in (at + 1)..Len(old) : new[k + 1] = old[k]

\* The columns are the same ones, in the same order, but for their items.
SameColumnsButItems(old, new) ==
  /\ Len(new) = Len(old)
  /\ \A i \in Indices(old) : new[i].id = old[i].id /\ new[i].title = old[i].title

\* C3: moveCard between two distinct columns, the card in from and
\* 0 <= newIndex <= length of to: from loses the card and keeps the order of
\* the rest, to holds its previous items with the card at position newIndex,
\* and every other column is unchanged.
C3_MoveCardInsertsAtIndex ==
  (MoveAcross /\ last.newIndex \in 0..Len(ItemsOf(last.pre, last.toColumnId)))
    => /\ SameColumnsButItems(last.pre, columns)
       /\ \A i \in Indices(last.pre) :
            LET old == last.pre[i].items
                new == columns[i].items
                notTheCard(x) == x.id # last.cardId
            IN  IF last.pre[i].id = last.columnId
                  THEN new = SelectSeq(old, notTheCard)
                ELSE IF last.pre[i].id = last.toColumnId
                  THEN /\ InsertedAt(old, new, last.cardId, last.newIndex)
                       /\ new[last.newIndex + 1]
                            \in Range(ItemsOf(last.pre, last.columnId))
                ELSE new = old

\* A card moved into the middle of a column that held two cards, out of a
\* column that keeps a card.
C3_Witness ==
  /\ MoveAcross
  /\ last.newIndex = 1
  /\ Len(ItemsOf(last.pre, last.toColumnId)) = 2
  /\ Len(ItemsOf(last.pre, last.columnId)) = 2
  /\ Len(ItemsOf(columns, last.toColumnId)) = 3

\* C4: moveCard with a cardId that is not in fromColumnId's items (the card
\* is elsewhere, or nowhere, or fromColumnId names no column) leaves the
\* store unchanged, whatever toColumnId and newIndex are.
C4_MoveCardStaleIsNoOp ==
  (IsMove /\ ~MoveFound) => columns = last.pre

\* The card lives in another column than the one named, and the destination
\* exists.
C4_Witness ==
  /\ IsMove
  /\ last.cardId \in CardIdsOf(last.pre)
  /\ HasColumn(last.pre, last.columnId)
  /\ ~CardIn(last.pre, last.cardId, last.columnId)
  /\ HasColumn(last.pre, last.toColumnId)
  /\ last.toColumnId # last.columnId

\* C5: moveCard with newIndex greater than the destination's length puts
\* the card last: the list is the previous one with the card appended, one
\* longer, every position holding a card.
C5_MoveCardPastEndAppends ==
  (MoveAcross /\ last.newIndex > Len(ItemsOf(last.pre, last.toColumnId)))
    => \A i \in Indices(last.pre) :
         last.pre[i].id = last.toColumnId
           => LET old == last.pre[i].items
                  new == columns[i].items
              IN  /\ Len(new) = Len(old) + 1
                  /\ SubSeq(new, 1, Len(old)) = old
                  /\ new[Len(new)].id = last.cardId
                  /\ new[Len(new)] \in Range(ItemsOf(last.pre, last.columnId))

\* The index is at least two past the end of a destination that held a card.
C5_Witness ==
  /\ MoveAcross
  /\ Len(ItemsOf(last.pre, last.toColumnId)) = 1
  /\ last.newIndex = 3
  /\ Len(ItemsOf(columns, last.toColumnId)) = 2

\* C6: moveCard clamps newIndex to [0, length]: for every integer newIndex,
\* negative ones included, the card ends at position
\* max(0, min(newIndex, L)) of the destination, L the destination's length
\* before the insertion.
C6_MoveCardClampsIndex ==
  (MoveFound /\ HasColumn(last.pre, last.toColumnId))
    => LET L == Len(FilterOutId(ItemsOf(last.pre, last.toColumnId), last.cardId))
       IN  FindIndex(ItemsOf(columns, last.toColumnId), last.cardId)
             = Max(0, Min(last.newIndex, L))

IsReorderCards == last.op = "reorderCardsInColumn"

\* How often x occurs in the sequence s.
Count(s, x) == Cardinality({k \in Indices(s) : s[k] = x})

\* a is a rearrangement of b.
IsPermutation(a, b) ==
  /\ Len(a) = Len(b)
  /\ \A x \in Range(a) \cup Range(b) : Count(a, x) = Count(b, x)

\* No two items of the list carry the same id.
DistinctIds(items) ==
  \A j, k \in Indices(items) : items[j].id = items[k].id => j = k

\* C7: when orderedCardIds is a permutation of the named column's card ids,
\* reorderCardsInColumn makes the column's items exactly that sequence of
\* ids, each item a card the column held (the same cards in a new order when
\* the column's ids are distinct), and leaves every other column and the
\* column order unchanged.
C7_ReorderCardsPermutes ==
  (/\ IsReorderCards
   /\ HasColumn(last.pre, last.columnId)
   /\ IsPermutation(last.ids, MapId(ItemsOf(last.pre, last.columnId))))
    => /\ SameColumnsButItems(last.pre, columns)
       /\ \A i \in Indices(last.pre) :
            IF last.pre[i].id = last.columnId
              THEN /\ MapId(columns[i].items) = last.ids
                   /\ Range(columns[i].items) \subseteq Range(last.pre[i].items)
                   /\ DistinctIds(last.pre[i].items)
                        => IsPermutation(columns[i].items, last.pre[i].items)
              ELSE columns[i] = last.pre[i]

\* Two cards of a column have changed places.
C7_Witness ==
  /\ IsReorderCards
  /\ HasColumn(last.pre, last.columnId)
  /\ Len(last.ids) = 2
  /\ last.ids[1] # last.ids[2]
  /\ IsPermutation(last.ids, MapId(ItemsOf(last.pre, last.columnId)))
  /\ last.ids # MapId(ItemsOf(last.pre, last.columnId))
  /\ MapId(ItemsOf(columns, last.columnId)) = last.ids

\* C8: reorderCardsInColumn ignores ids that are not in the named column:
\* afterwards the column holds no card that was not in it before, no other
\* column has changed, and a columnId that names no column changes nothing.
C8_ReorderCardsIgnoresForeignIds ==
  IsReorderCards
    => /\ SameColumnsButItems(last.pre, columns)
       /\ \A i \in Indices(last.pre) :
            IF last.pre[i].id = last.columnId
              THEN Range(columns[i].items) \subseteq Range(last.pre[i].items)
              ELSE columns[i] = last.pre[i]
       /\ ~HasColumn(last.pre, last.columnId) => columns = last.pre

\* The list names a card of another column and an id no card has, for a
\* column that exists and holds cards.
C8_Witness ==
  /\ IsReorderCards
  /\ HasColumn(last.pre, last.columnId)
  /\ ItemsOf(last.pre, last.columnId) # <<>>
  /\ \E k \in Indices(last.ids) :
       /\ last.ids[k] \in CardIdsOf(last.pre)
       /\ ~CardIn(last.pre, last.ids[k], last.columnId)
  /\ \E k \in Indices(last.ids) : last.ids[k] \notin CardIdsOf(last.pre)

\* C9: reorderColumns is idempotent: for every board and every id sequence
\* (unknown, missing or repeated ids included) a second reorderColumns(ids)
\* leaves the columns the first one produced.
C9_ReorderColumnsIdempotent ==
  last.op = "reorderColumns" => reorderColumns(columns, last.ids) = columns

\* The call changed the board, with a list that repeats an id, names an
\* unknown one and leaves a column out.
C9_Witness ==
  /\ last.op = "reorderColumns"
  /\ columns # last.pre
  /\ \E j, k \in Indices(last.ids) : j # k /\ last.ids[j] = last.ids[k]
  /\ \E k \in Indices(last.ids) : ~HasColumn(last.pre, last.ids[k])
  /\ \E i \in Indices(last.pre) : last.pre[i].id \notin Range(last.ids)

\* C10: deleteColumn removes exactly the named column and the cards in it:
\* every other column keeps its place among the others and its items, and a
\* columnId that names no column leaves the columns unchanged.
C10_DeleteColumnRemovesOnlyNamed ==
  last.op = "deleteColumn"
    => LET kept == {i \in Indices(last.pre) : last.pre[i].id # last.columnId}
           place(i) == Cardinality({j \in kept : j <= i})
       IN  /\ Len(columns) = Cardinality(kept)
           /\ \A i \in kept : columns[place(i)] = last.pre[i]
           /\ ~HasColumn(columns, last.columnId)
           /\ ~HasColumn(last.pre, last.columnId) => columns = last.pre

\* The first column, holding cards, was deleted and two columns remain.
C10_Witness ==
  /\ last.op = "deleteColumn"
  /\ Len(last.pre) = 3
  /\ last.pre[1].id = last.columnId
  /\ last.pre[1].items # <<>>
  /\ Len(columns) = 2
  /\ CardIdsOf(columns) # CardIdsOf(last.pre)

\* C11: addCard(columnId, title) appends exactly one card, with the given title
\* and no comments, at the end of the named column: the cards the column had
\* keep their places, every other column is unchanged, and a columnId that
\* names no column adds no card anywhere.
C11_AddCardAppendsOneCard ==
  last.op = "addCard"
    => /\ Len(columns) = Len(last.pre)
       /\ \A i \in Indices(last.pre) :
            IF last.pre[i].id = last.columnId
              THEN LET old == last.pre[i].items
                       new == columns[i].items
                   IN  /\ columns[i] = [last.pre[i] EXCEPT !.items = new]
                       /\ Len(new) = Len(old) + 1
                       /\ SubSeq(new, 1, Len(old)) = old
                       /\ new[Len(new)].title = last.title
                       /\ new[Len(new)].comments = <<>>
              ELSE columns[i] = last.pre[i]
       /\ ~HasColumn(last.pre, last.columnId) => columns = last.pre

\* A card was added to a column that already held two cards.
C11_Witness ==
  /\ last.op = "addCard"
  /\ \E i \in Indices(last.pre) :
       /\ last.pre[i].id = last.columnId
       /\ Len(last.pre[i].items) = 2
       /\ Len(columns[i].items) = 3
       /\ columns[i].items[3].title = last.title

\* C12: ids stay unique under creation, whatever the clock reads (two
\* creations at the same reading included): the card ids of the board are
\* pairwise distinct, the column ids are pairwise distinct, and an id just
\* created by addCard or addColumn is none of the ids the board already had.
C12_IdsStayUnique ==
  /\ \A id \in CardIdsOf(columns) : Occurrences(columns, id) = 1
  /\ \A id \in ColumnIdsOf(columns) : ColumnOccurrences(columns, id) = 1
  /\ (last.op = "addColumn" \/ (last.op = "addCard" /\ columns # last.pre))
       => last.newId \notin CardIdsOf(last.pre) \cup ColumnIdsOf(last.pre)

\* a is an initial segment of b.
IsPrefix(a, b) == Len(a) <= Len(b) /\ SubSeq(b, 1, Len(a)) = a

\* The cards on the board, as records.
CardsOf(cols) == UNION {Range(cols[i].items) : i \in Indices(cols)}

\* C13: comments are append-only.  addComment(cardId, text) adds exactly one
\* comment, with that text, at the end of the named card's list and changes
\* nothing else; and after every store action other than deleteColumn each
\* card on the board is either the card addCard just created or a card the
\* board had, with the same id, whose comment list is a prefix of its own:
\* comments are never reordered, edited or removed while the card exists.
C13_CommentsAppendOnly ==
  /\ last.op = "addComment"
       => /\ Len(columns) = Len(last.pre)
          /\ \A i \in Indices(last.pre) :
               /\ columns[i] = [last.pre[i] EXCEPT !.items = columns[i].items]
               /\ Len(columns[i].items) = Len(last.pre[i].items)
               /\ \A k \in Indices(last.pre[i].items) :
                    LET old == last.pre[i].items[k]
                        new == columns[i].items[k]
                    IN  IF old.id = last.cardId
                          THEN /\ new = [old EXCEPT !.comments = new.comments]
                               /\ Len(new.comments) = Len(old.comments) + 1
                               /\ IsPrefix(old.comments, new.comments)
                               /\ new.comments[Len(new.comments)].text = last.title
                          ELSE new = old
  /\ last.op \notin {"none", "deleteColumn"}
       => \A new \in CardsOf(columns) :
            \/ last.op = "addCard" /\ new = Card(last.newId, last.title)
            \/ \E old \in CardsOf(last.pre) :
                 old.id = new.id /\ IsPrefix(old.comments, new.comments)

\* A second comment was added to a card that had one: it comes after the first.
C13_Witness ==
  /\ last.op = "addComment"
  /\ \E old \in CardsOf(last.pre), new \in CardsOf(columns) :
       /\ old.id = last.cardId
       /\ new.id = last.cardId
       /\ Len(old.comments) = 1
       /\ Len(new.comments) = 2
       /\ new.comments[1] = old.comments[1]
       /\ new.comments[2].text = last.title

\* C14: drag-start and drag-over invoke no store action.  Every step that
\* leaves a gesture in progress (a drag-start or a drag-over) leaves the
\* store's columns and board title as they were and no store action invoked
\* since the gesture began; only dragPosition and activeCard may change.
C14_StartAndOverInvokeNoStoreAction ==
  [][dnd' # Null
       => /\ columns' = columns
          /\ boardTitle' = boardTitle
          /\ now' = now
          /\ invoked' = 0
          /\ last' = NoCall]_vars

\* Mid-gesture, a cross-column preview is recorded and the overlay is set,
\* with the board still the seed board.
C14_Witness ==
  /\ dnd # Null
  /\ activeCard # Null
  /\ dragPosition # Null
  /\ dragPosition[1].fromColumnId # dragPosition[1].toColumnId
  /\ columns = initialColumns
  /\ invoked = 0

\* C15: a gesture invokes at most one store action.  At no point of a gesture
\* has more than one store action been invoked since it began, and after its
\* drag-end either none was invoked and the columns are the pre-drop columns,
\* or exactly one of reorderColumns, reorderCardsInColumn and moveCard was
\* invoked, once, on the pre-drop columns, and it accounts for the whole
\* change: the store changes (and is persisted) at most once per gesture.
C15_DragEndInvokesAtMostOneAction ==
  /\ invoked <= 1
  /\ drop # Null
       => \/ invoked = 0 /\ columns = drop[1].pre
          \/ /\ invoked = 1
             /\ last.op \in {"reorderColumns", "reorderCardsInColumn", "moveCard"}
             /\ last.pre = drop[1].pre
             /\ columns = Apply(last, drop[1].pre)

\* A drop committed one store action that changed the columns.
C15_Witness ==
  /\ drop # Null
  /\ invoked = 1
  /\ columns # drop[1].pre

\* s without its k-th element.
RemoveAt(s, k) == SubSeq(s, 1, k - 1) \o SubSeq(s, k + 1, Len(s))

\* new is old with the element at index from (0-based) taken out and put back
\* at index to, or at the end when to is past it; the others keep their order.
IsArrayMove(old, new, from, to) ==
  LET at == Min(to, Len(old) - 1)
  IN  /\ Len(new) = Len(old)
      /\ new[at + 1] = old[from + 1]
      /\ RemoveAt(new, at + 1) = RemoveAt(old, from + 1)

\* The gesture ended with a column dropped over a column.
ColumnDroppedOverColumn ==
  /\ drop # Null
  /\ drop[1].over # Null
  /\ drop[1].active.type = "column"
  /\ drop[1].over[1].type = "column"

\* C16: a column dropped over another column moves to that column's place:
\* the resulting column order is the array-move of the pre-drop order from the
\* dragged column's index to the target's index, by one reorderColumns call,
\* every column keeps its title and items, and a drop with source index equal
\* to target index invokes no store action.
C16_ColumnDropIsArrayMove ==
  ColumnDroppedOverColumn
    => LET d    == drop[1]
           from == FindIndex(d.pre, d.active.id)
           to   == FindIndex(d.pre, d.over[1].id)
       IN  /\ IF from = to
                THEN invoked = 0 /\ columns = d.pre
                ELSE /\ invoked = 1
                     /\ last.op = "reorderColumns"
                     /\ IsArrayMove(MapId(d.pre), MapId(columns), from, to)
           /\ \A j \in Indices(d.pre) : Find(columns, d.pre[j].id) = Some(d.pre[j])

\* The last of three columns was dropped on the first and is now first, the
\* other two following in their old order.
C16_Witness ==
  /\ ColumnDroppedOverColumn
  /\ Len(columns) = 3
  /\ drop[1].active.id = drop[1].pre[3].id
  /\ drop[1].over[1].id = drop[1].pre[1].id
  /\ MapId(columns) = <<drop[1].pre[3].id, drop[1].pre[1].id, drop[1].pre[2].id>>

\* The gesture ended in handleDragEnd's card branch with a preview recorded.
PreviewDropped ==
  /\ drop # Null
  /\ drop[1].over # Null
  /\ ~(drop[1].active.type = "column" /\ drop[1].over[1].type = "column")
  /\ drop[1].position # Null

\* C17: a drop whose preview has source column = target column reorders that
\* column.  If the column still holds the card at an old index other than the
\* preview's target index, exactly one store call is made, a
\* reorderCardsInColumn of that column, and the column's resulting order is the
\* array-move of the card from its old index to the target index, with the
\* same cards and every other column unchanged; if the old index equals the
\* target index, or the card is no longer in that column, no store action is
\* invoked and the columns are unchanged.
C17_SameColumnDropIsArrayMove ==
  (PreviewDropped /\ drop[1].position[1].fromColumnId = drop[1].position[1].toColumnId)
    => LET d        == drop[1]
           p        == d.position[1]
           column   == Find(d.pre, p.fromColumnId)
           oldIndex == IF column = Null THEN -1
                       ELSE FindIndex(column[1].items, p.activeId)
       IN  IF oldIndex # -1 /\ oldIndex # p.toIndex
             THEN /\ Len(d.made) = 1
                  /\ d.made[1].op = "reorderCardsInColumn"
                  /\ d.made[1].columnId = p.fromColumnId
                  /\ Len(columns) = Len(d.pre)
                  /\ \A i \in Indices(d.pre) :
                       IF d.pre[i].id = p.fromColumnId
                         THEN /\ columns[i] = [d.pre[i] EXCEPT !.items = columns[i].items]
                              /\ IsArrayMove(MapId(d.pre[i].items),
                                             MapId(columns[i].items), oldIndex, p.toIndex)
                              /\ Range(columns[i].items) = Range(d.pre[i].items)
                         ELSE columns[i] = d.pre[i]
             ELSE d.made = <<>> /\ columns = d.pre

\* A card was dropped in its own column and changed place there.
C17_Witness ==
  /\ PreviewDropped
  /\ drop[1].active.type = "card"
  /\ drop[1].position[1].activeId = drop[1].active.id
  /\ drop[1].position[1].fromColumnId = drop[1].position[1].toColumnId
  /\ Len(drop[1].made) = 1
  /\ columns # drop[1].pre

\* C18: a drop whose preview has a target column other than its source column
\* makes exactly one store call, moveCard(cardId, source, target, preview
\* index), and nothing else: the columns after the drop are the ones that one
\* call leaves, and both before and after it the card is in exactly one
\* column, the source before and the target after, never in none or in two.
C18_CrossColumnDropIsOneMoveCard ==
  (PreviewDropped /\ drop[1].position[1].fromColumnId # drop[1].position[1].toColumnId)
    => LET d == drop[1]
           p == d.position[1]
       IN  /\ d.made = <<MoveCardCall(p.activeId, p.fromColumnId, p.toColumnId,
                                      p.toIndex)>>
           /\ columns = moveCard(d.pre, p.activeId, p.fromColumnId, p.toColumnId,
                                 p.toIndex)
           /\ Occurrences(d.pre, p.activeId) = 1
           /\ CardIn(d.pre, p.activeId, p.fromColumnId)
           /\ Occurrences(columns, p.activeId) = 1
           /\ CardIn(columns, p.activeId, p.toColumnId)

\* A card was dropped into another column, between the cards that column had.
C18_Witness ==
  /\ PreviewDropped
  /\ drop[1].active.type = "card"
  /\ drop[1].position[1].activeId = drop[1].active.id
  /\ drop[1].position[1].fromColumnId # drop[1].position[1].toColumnId
  /\ drop[1].position[1].toIndex = 1
  /\ Len(ItemsOf(columns, drop[1].position[1].toColumnId)) = 3
  /\ ItemsOf(columns, drop[1].position[1].toColumnId)[2].id = drop[1].active.id

\* C19: after every drag-end, whatever its outcome (a commit, a no-op or no
\* drop target), the session is Idle: activeCard is null and dragPosition is
\* null, and they stay so until the next gesture starts.
C19_DragEndReturnsToIdle ==
  drop # Null => dnd = Null /\ activeCard = Null /\ dragPosition = Null

\* A column was dropped over a column while a preview was still recorded, and
\* the drop reordered the columns.
C19_Witness ==
  /\ ColumnDroppedOverColumn
  /\ drop[1].position # Null
  /\ columns # drop[1].pre
  /\ dragPosition = Null

\* C20: a cancelled gesture leaves the session Idle and the store untouched:
\* whenever no gesture is in progress, activeCard and dragPosition are null,
\* so nothing a cancelled gesture recorded is there when the next one starts;
\* and a gesture that ends without a drag-end has invoked no store action.
C20_CancelClearsSession ==
  dnd = Null
    => /\ activeCard = Null
       /\ dragPosition = Null
       /\ drop = Null => invoked = 0

\* The gesture ended with no recorded drop target: drag-end with over = null,
\* or a card's drag-end with no preview.
NoTargetDropped ==
  /\ drop # Null
  /\ \/ drop[1].over = Null
     \/ drop[1].active.type = "card" /\ drop[1].position = Null

\* C21: a drag that ends with no recorded drop target (over = null, or a card
\* drag whose preview is null) invokes no store action and leaves the board as
\* it was.
C21_NoTargetDropInvokesNothing ==
  NoTargetDropped
    => /\ drop[1].made = <<>>
       /\ invoked = 0
       /\ columns = drop[1].pre
       /\ boardTitle = "Demo Board"

\* A gesture ended over nothing while a preview was still recorded.
C21_Witness ==
  /\ drop # Null
  /\ drop[1].over = Null
  /\ drop[1].position # Null
  /\ columns = drop[1].pre

\* A card was dropped while hovering another card X (drop[1].over).
DroppedOnOtherCard ==
  /\ drop # Null
  /\ drop[1].active.type = "card"
  /\ drop[1].over # Null
  /\ drop[1].over[1].type = "card"
  /\ drop[1].over[1].id # drop[1].active.id
  /\ drop[1].position # Null

\* The ids of the cards, after the drop, of the column that held X before it.
ItemIdsAroundX ==
  MapId(columns[ColumnHolding(drop[1].pre, drop[1].over[1].id)].items)

DragOverStep == dnd # Null /\ dnd' = dnd /\ calls' = calls

\* The columns (as indices) that hold a card with the id.
Holders(cols, cardId) == {i \in Indices(cols) : SomeId(cols[i].items, cardId)}

\* The columns (as indices) a hover target resolves to: the ones holding the
\* hovered card, or the hovered column itself.
Resolved(cols, over) ==
  IF over.type = "card" THEN Holders(cols, over.id)
  ELSE {i \in Indices(cols) : cols[i].id = over.id}

\* C28: a drag-over of a card drag whose hover target resolves to a column
\* sets the preview to: activeId the dragged card, fromColumnId the column
\* that holds the dragged card in the store now, toColumnId the resolved
\* column, toIndex the hovered card's index in that column, or the column's
\* length when the column itself is hovered; so 0 <= toIndex <= that length.
C28_DragOverComputesPreview ==
  [][(/\ DragOverStep
      /\ dnd[1].type = "card"
      /\ dndOver' # Null
      /\ Holders(columns, dnd[1].id) # {}
      /\ Resolved(columns, dndOver'[1]) # {})
       => /\ dragPosition' # Null
          /\ LET p     == dragPosition'[1]
                 over  == dndOver'[1]
                 from  == CHOOSE i \in Holders(columns, dnd[1].id) :
                            \A j \in Holders(columns, dnd[1].id) : i <= j
                 to    == CHOOSE i \in Resolved(columns, over) :
                            \A j \in Resolved(columns, over) : i <= j
                 items == columns[to].items
             IN  /\ p.activeId = dnd[1].id
                 /\ p.fromColumnId = columns[from].id
                 /\ p.toColumnId = columns[to].id
                 /\ 0 <= p.toIndex /\ p.toIndex <= Len(items)
                 /\ IF over.type = "card"
                      THEN /\ p.toIndex < Len(items)
                           /\ items[p.toIndex + 1].id = over.id
                           /\ \A k \in 1..p.toIndex : items[k].id # over.id
                      ELSE p.toIndex = Len(items)]_vars

\* A card hovers the empty area of another column that holds two cards: the
\* preview's target index is 2, the column's length.
C28_Witness ==
  /\ dnd # Null
  /\ dnd[1].type = "card"
  /\ dndOver # Null
  /\ dndOver[1].type = "column"
  /\ dragPosition # Null
  /\ dragPosition[1].activeId = dnd[1].id
  /\ dragPosition[1].toColumnId = dndOver[1].id
  /\ dragPosition[1].fromColumnId # dragPosition[1].toColumnId
  /\ dragPosition[1].toIndex = 2
  /\ Len(ItemsOf(columns, dndOver[1].id)) = 2

\* C29: during a card drag, a drag-over with no hover target, or whose hover
\* target or dragged card resolves to no column, sets dragPosition to null
\* and nothing else: the gesture stays in progress, activeCard is kept, no
\* drag-end is processed and no store action is invoked.
C29_UnresolvedDragOverClearsPreview ==
  [][(/\ DragOverStep
      /\ dnd[1].type = "card"
      /\ \/ dndOver' = Null
         \/ Holders(columns, dnd[1].id) = {}
         \/ Resolved(columns, dndOver'[1]) = {})
       => /\ dragPosition' = Null
          /\ activeCard' = activeCard
          /\ drop' = drop
          /\ columns' = columns
          /\ boardTitle' = boardTitle
          /\ invoked' = invoked]_vars

\* A card whose column was deleted while it was dragged hovers a card: the
\* preview is null, the gesture still in progress and the overlay still set.
C29_Witness ==
  /\ dnd # Null
  /\ dnd[1].type = "card"
  /\ dndOver # Null
  /\ Holders(columns, dnd[1].id) = {}
  /\ dragPosition = Null
  /\ activeCard # Null
  /\ drop = Null

\* C30: the resolver trusts the last preview.  Every store call a drop makes
\* carries the target column and target index the preview recorded, not
\* values computed from the columns at drop time; so when the target column
\* changed after the last drag-over (a card was added to it, say) a
\* cross-column drop still inserts the card at the recorded index, or at the
\* end when the column has become shorter than that.
C30_DropCommitsRecordedPreview ==
  PreviewDropped
    => LET d == drop[1]
           p == d.position[1]
       IN  /\ \A k \in Indices(d.made) :
                LET call == d.made[k]
                IN  /\ call.op \in {"moveCard", "reorderCardsInColumn"}
                    /\ call.columnId = p.fromColumnId
                    /\ call.op = "moveCard"
                         => /\ call.cardId = p.activeId
                            /\ call.toColumnId = p.toColumnId
                            /\ call.newIndex = p.toIndex
                    /\ call.op = "reorderCardsInColumn"
                         => /\ p.toColumnId = p.fromColumnId
                            /\ call.ids[Min(p.toIndex, Len(call.ids) - 1) + 1] = p.activeId
           /\ p.fromColumnId # p.toColumnId => Len(d.made) = 1
           /\ (/\ p.fromColumnId # p.toColumnId
               /\ CardIn(d.pre, p.activeId, p.fromColumnId)
               /\ HasColumn(d.pre, p.toColumnId))
                => LET before == ItemsOf(d.pre, p.toColumnId)
                       after  == ItemsOf(columns, p.toColumnId)
                   IN  after[Min(p.toIndex, Len(before)) + 1].id = p.activeId

\* A card hovered the empty area of another column, a card was then added to
\* that column, and the drop put the dragged card at the recorded index,
\* before the added card.
C30_Witness ==
  /\ PreviewDropped
  /\ drop[1].active.type = "card"
  /\ drop[1].over[1].type = "column"
  /\ drop[1].position[1].activeId = drop[1].active.id
  /\ drop[1].position[1].toColumnId = drop[1].over[1].id
  /\ drop[1].position[1].fromColumnId # drop[1].position[1].toColumnId
  /\ HasColumn(drop[1].pre, drop[1].over[1].id)
  /\ drop[1].position[1].toIndex < Len(ItemsOf(drop[1].pre, drop[1].over[1].id))
  /\ ItemsOf(columns, drop[1].over[1].id)[drop[1].position[1].toIndex + 1].id
       = drop[1].active.id

(***************************************************************************)
(* Hydration and migration.                                                *)
(***************************************************************************)
\* The state of a newly created store, as far as it is persisted.
DefaultState ==
  [boardTitle |-> "Demo Board", hasHydrated |-> InitialHasHydrated,
   columns |-> initialColumns]

\* The load has read the storage and found a snapshot of the version.
FoundVersion(version) ==
  /\ hydration.phase # "created"
  /\ hydration.found # Null
  /\ hydration.found[1].version = version

\* The card of the new snapshot is the card of the old one, but for its
\* comments.
SameCardButComments(new, old) == [new EXCEPT !.comments = old.comments] = old

C24_MigratesVersion0 ==
  FoundVersion(0) =>
    LET old == hydration.found[1].state
        new == migrate(old, 0)
    IN  /\ Len(new.columns) = Len(old.columns)
        /\ \A i \in Indices(old.columns) :
             /\ new.columns[i].id = old.columns[i].id
             /\ new.columns[i].title = old.columns[i].title
             /\ Len(new.columns[i].items) = Len(old.columns[i].items)
             /\ \A k \in Indices(old.columns[i].items) :
                  LET newCard == new.columns[i].items[k]
                      oldCard == old.columns[i].items[k]
                  IN  /\ SameCardButComments(newCard, oldCard)
                      /\ newCard.comments =
                           IF oldCard.comments.isArray THEN oldCard.comments
                           ELSE JsonArray(<<>>)
        /\ new.boardTitle # Null
        /\ new.boardTitle[1] # ""
        /\ old.boardTitle = Null => new.boardTitle = Some("Demo Board")
        /\ hydration.phase = "applied" =>
             /\ columns = ColumnsFromJson(new.columns)
             /\ boardTitle = new.boardTitle[1]

\* A version-0 snapshot with comments of both kinds and no title was loaded.
C24_Witness ==
  /\ FoundVersion(0)
  /\ hydration.phase = "applied"
  /\ hydration.found[1].state.boardTitle = Null
  /\ \E i \in Indices(hydration.found[1].state.columns) :
       \E k \in Indices(hydration.found[1].state.columns[i].items) :
         ~hydration.found[1].state.columns[i].items[k].comments.isArray
  /\ \E i \in Indices(columns) :
       \E k \in Indices(columns[i].items) : columns[i].items[k].comments = <<>>
  /\ columns # initialColumns

\* C25: migrating from version 0 is the step 0 -> 1 followed by the
\* migration from version 1; migrating the output of a migration again, from
\* the same version or from version 2, returns it unchanged, and so does
\* migrating a version-2 snapshot.
C25_MigrationsInOrderAndIdempotent ==
  (hydration.phase # "created" /\ hydration.found # Null) =>
    LET old     == hydration.found[1].state
        version == hydration.found[1].version
        new     == migrate(old, version)
    IN  /\ version = 0 => new = migrate(NormaliseComments(old), 1)
        /\ migrate(new, version) = new
        /\ migrate(new, CurrentVersion) = new
        /\ version = CurrentVersion => new = old

\* A load that migrated a version-1 snapshot without a title is done.
C25_Witness ==
  /\ FoundVersion(1)
  /\ hydration.phase = "done"
  /\ hydration.found[1].state.boardTitle = Null
  /\ boardTitle = "Demo Board"

\* C26: a page loaded over the snapshot the page before left (version 2)
\* has the boardTitle and the columns the page before had.
C26_SnapshotRoundTrip ==
  (hydration.phase = "applied" /\ hydration.before # Null) =>
    /\ FoundVersion(CurrentVersion)
    /\ boardTitle = hydration.before[1].boardTitle
    /\ columns = hydration.before[1].columns

\* A board with a comment, a description and a title of its own was
\* persisted and loaded again.
C26_Witness ==
  /\ hydration.phase = "applied"
  /\ hydration.before # Null
  /\ boardTitle # "Demo Board"
  /\ \E i \in Indices(columns) :
       \E k \in Indices(columns[i].items) :
         /\ columns[i].items[k].comments # <<>>
         /\ columns[i].items[k].description # Null

\* The ids of the columns and of the cards of a board.
IdsOn(cols) ==
  {cols[i].id : i \in 1..Len(cols)}
  \cup UNION {{cols[i].items[k].id : k \in 1..Len(cols[i].items)} :
              i \in 1..Len(cols)}

\* C27: a page loaded over an empty storage shows the board "Demo Board"
\* with the columns Todo (2 cards), In Progress (1 card) and Done (none), in
\* that order; the six ids of its columns and cards are pairwise distinct
\* and every card has no comments.
C27_SeedBoard ==
  (hydration.phase # "created" /\ hydration.found = Null /\ calls = 0) =>
    /\ boardTitle = "Demo Board"
    /\ [i \in 1..Len(columns) |-> columns[i].title]
         = <<"Todo", "In Progress", "Done">>
    /\ [i \in 1..Len(columns) |-> Len(columns[i].items)] = <<2, 1, 0>>
    /\ Cardinality(IdsOn(columns)) = 6
    /\ Cardinality({SeedLiteral[id] : id \in IdsOn(columns)}) = 6
    /\ \A i \in 1..Len(columns) : \A k \in 1..Len(columns[i].items) :
         columns[i].items[k].comments = <<>>

\* The load over an empty storage is done, and the flag is set.
C27_Witness ==
  /\ hydration.phase = "done"
  /\ hydration.found = Null
  /\ hydration.before = Null
  /\ calls = 0
  /\ columns = initialColumns

(***************************************************************************)
(* Stale destinations, no-op drops, column drags, reorders.                *)
(***************************************************************************)
\* C31: moveCard with a toColumnId that names no column of the board is a
\* no-op: the card stays in its source column and the columns are unchanged.
C31_MoveToUnknownColumnIsNoOp ==
  (IsMove /\ ~HasColumn(last.pre, last.toColumnId)) => columns = last.pre

\* C32: a drop that leaves the board as it was has invoked no store action.
C32_UnchangedDropInvokesNothing ==
  (drop # Null /\ columns = drop[1].pre) => drop[1].made = <<>>

\* The store actions that move cards.
CardMoving == {"moveCard", "reorderCardsInColumn"}

\* C33: a gesture that drags a column has no preview while it lasts, and its
\* drop invokes neither moveCard nor reorderCardsInColumn.
C33_ColumnDragMovesNoCard ==
  /\ (dnd # Null /\ dnd[1].type = "column") => dragPosition = Null
  /\ (drop # Null /\ drop[1].active.type = "column")
       => \A k \in Indices(drop[1].made) : drop[1].made[k].op \notin CardMoving

\* C34: reorderCardsInColumn only changes order: whatever cardIds is, every
\* card id occurs in the named column as often after the call as before.
C34_ReorderCardsKeepsMultiset ==
  IsReorderCards =>
    \A i \in Indices(last.pre) :
      last.pre[i].id = last.columnId =>
        \A id \in CardIdsOf(last.pre) \cup CardIdsOf(columns) :
          Count(MapId(columns[i].items), id) = Count(MapId(last.pre[i].items), id)

\* C35: reorderColumns only changes order: whatever columnIds is, the board
\* holds the same columns afterwards, each once per occurrence before and
\* with its item list.
C35_ReorderColumnsKeepsColumns ==
  last.op = "reorderColumns" =>
    /\ Len(columns) = Len(last.pre)
    /\ \A column \in Range(last.pre) \cup Range(columns) :
         Count(columns, column) = Count(last.pre, column)

\* The call found its card and names the card's column as the destination.
MoveWithin == MoveFound /\ last.columnId = last.toColumnId

\* C36: moveCard within one column (the card in it) leaves the card in the
\* column exactly once, the other cards in their relative order and every
\* other column as it was; for newIndex >= 0 the card, when the column held
\* it once, is at position min(newIndex, length - 1).
C36_MoveWithinColumnReinserts ==
  MoveWithin =>
    /\ SameColumnsButItems(last.pre, columns)
    /\ \A i \in Indices(last.pre) :
         IF last.pre[i].id = last.columnId
           THEN LET old  == last.pre[i].items
                    new  == columns[i].items
                    rest == FilterOutId(old, last.cardId)
                IN  /\ Count(MapId(new), last.cardId) = 1
                    /\ FilterOutId(new, last.cardId) = rest
                    /\ (last.newIndex >= 0 /\ Count(MapId(old), last.cardId) = 1)
                         => InsertedAt(rest, new, last.cardId,
                                       Min(last.newIndex, Len(old) - 1))
           ELSE columns[i] = last.pre[i]

\* The first of two cards was moved to the end of its column with an index
\* past the end.
C36_Witness ==
  /\ MoveWithin
  /\ last.newIndex = 3
  /\ Len(ItemsOf(last.pre, last.columnId)) = 2
  /\ ItemsOf(last.pre, last.columnId)[1].id = last.cardId
  /\ ItemsOf(columns, last.columnId)[2].id = last.cardId

(***************************************************************************)
(* The page.                                                               *)
(***************************************************************************)
\* C37: what Home renders while hasHydrated is false holds no board content:
\* neither the board title nor the columns.
C37_NothingRenderedBeforeHydrated ==
  ~page.view.hydrated => (page.view.title = Null /\ page.view.board = Null)

\* The text is not empty and neither begins nor ends with white space.
IsTrimmedNonEmpty(text) ==
  /\ text # <<>>
  /\ text[1] # Space
  /\ text[Len(text)] # Space

\* The actions the input components call with a text that must not be empty.
TextActions ==
  {"addCard", "addColumn", "updateBoardTitle", "updateCardTitle", "addComment"}

\* The store holds the text of the call as it was passed.
HoldsText(call) ==
  CASE call.op = "addCard" ->
         \E item \in Range(ItemsOf(columns, call.columnId)) :
           item.id = call.newId /\ item.title = call.title
    [] call.op = "addColumn" ->
         \E column \in Range(columns) :
           column.id = call.newId /\ column.title = call.title
    [] call.op = "updateBoardTitle" -> boardTitle = call.title
    [] call.op = "updateCardTitle" ->
         \A i \in 1..Len(columns) : \A item \in Range(columns[i].items) :
           item.id = call.cardId => item.title = call.title
    [] call.op = "addComment" ->
         \A i \in 1..Len(columns) : \A item \in Range(columns[i].items) :
           item.id = call.cardId
             => item.comments[Len(item.comments)].text = call.title
    [] OTHER -> FALSE

\* C38: whatever texts are submitted through the Modal, the card modal's
\* title input and comment form and the board title's input, a text that is
\* empty once trimmed calls no store action, and addCard, addColumn,
\* updateBoardTitle, updateCardTitle and addComment are called with the
\* trimmed text only, never an empty one; the store holds that text as it
\* was passed.
C38_EmptyTextRejectedAtUi ==
  /\ last.op # "none" =>
       /\ last.op \in TextActions
       /\ IsTrimmedNonEmpty(last.title)
       /\ HoldsText(last)
  /\ page.input # Null =>
       /\ trim(page.input[1].value) = <<>> => ~page.input[1].called
       /\ page.input[1].called => last.title = trim(page.input[1].value)

\* A text that begins with white space was submitted in the Modal and a card
\* was added with the text after it.
C38_Witness ==
  /\ page.input # Null
  /\ page.input[1].called
  /\ page.input[1].value = <<Space, "a">>
  /\ last.op = "addCard"
  /\ last.title = <<"a">>

====
